---- MODULE Spec2Model ----
(***************************************************************************)
(* A model of clicra (src/clicra/clicra.py): the Process Runner            *)
(* (do_run_and_capture with its two stream_reader threads and the child    *)
(* process), the Code Block Extractor (highlight_and_extract_code), the    *)
(* Text Clipper, the Prompt Builder and the Orchestrator (main).           *)
(*                                                                         *)
(* Strings are sequences of one-character strings; the bytes a child       *)
(* writes to a pipe are sequences of numbers (byte values).                *)
(***************************************************************************)
EXTENDS Integers, Sequences, FiniteSets, TLC

(***************************************************************************)
(* Bounds of the model.                                                    *)
(***************************************************************************)
\* the child writes at most MaxWrites lines in all
MaxWrites == 3
\* an OS pipe holds at most PipeCap unread lines; a write to a full pipe blocks
PipeCap == 1
\* a text given to the Extractor has at most MaxLines lines
MaxLines == 5
\* a model response has at most MaxResponseLines lines
MaxResponseLines == 3
\* at most ChatCap calls of the model are followed in one invocation
ChatCap == 4

\* the texts given to clip_text alone have at most MaxClipLen characters and
\* the limits are at most MaxClipChars
MaxClipLen == 5
MaxClipChars == 6

(***************************************************************************)
(* Generic helpers on sequences.                                           *)
(***************************************************************************)
SeqsUpTo(S, n) == UNION {[1..k -> S] : k \in 0..n}

RECURSIVE Concat(_)
\* "".join(list): the concatenation of a sequence of strings
Concat(ss) == IF ss = <<>> THEN <<>> ELSE Head(ss) \o Concat(Tail(ss))

Reverse(s) == [i \in 1..Len(s) |-> s[Len(s) + 1 - i]]

\* the characters str.rstrip() / str.strip() remove (the ones the model uses)
Whitespace == {" ", "\n", "\t", "\r"}

RECURSIVE RStrip(_)
\* str.rstrip(): the string without its trailing whitespace
RStrip(s) ==
    IF s # <<>> /\ s[Len(s)] \in Whitespace
    THEN RStrip(SubSeq(s, 1, Len(s) - 1))
    ELSE s

RECURSIVE JoinWith(_, _)
\* sep.join(list)
JoinWith(sep, ss) ==
    IF ss = <<>> THEN <<>>
    ELSE IF Len(ss) = 1 THEN ss[1]
    ELSE ss[1] \o sep \o JoinWith(sep, Tail(ss))

\* "\n".join(list)
JoinNL(ss) == JoinWith(<<"\n">>, ss)

\* str.find(ch, start): the 0-based index of the first ch at or after start, or -1
Find(s, ch, start) ==
    LET hits == {i \in 0..(Len(s) - 1) : i >= start /\ s[i + 1] = ch}
    IN  IF hits = {} THEN -1
        ELSE CHOOSE i \in hits : \A j \in hits : i <= j

RECURSIVE SplitLines(_)
\* str.splitlines(): the lines of a text, without their line breaks; a final
\* line break opens no further line (the model's only line break is "\n")
SplitLines(s) ==
    IF s = <<>> THEN <<>>
    ELSE LET n == Find(s, "\n", 0)
         IN  IF n < 0 THEN <<s>>
             ELSE <<SubSeq(s, 1, n)>> \o SplitLines(SubSeq(s, n + 2, Len(s)))

(***************************************************************************)
(* Bytes and their decoding (line.decode("utf-8")).                        *)
(***************************************************************************)
\* a byte that can start no UTF-8 sequence; bytes below 128 are ASCII
ValidUtf8(bytes) == \A i \in 1..Len(bytes) : bytes[i] < 128

Chr(b) == CASE b = 10 -> "\n"
            [] b = 32 -> " "
            [] b = 97 -> "a"
            [] OTHER  -> "?"

\* bytes.decode("utf-8") of a line of ASCII bytes; raises on an invalid byte
\* (the caller tests ValidUtf8 first)
Decode(bytes) == [i \in 1..Len(bytes) |-> Chr(bytes[i])]

\* the lines a child may write: "a\n", "\n" and a line holding the byte 0xFF
ChildLines == {<<97, 10>>, <<10>>, <<255, 10>>}
Streams == {"out", "err"}
ExitCodes == {0, 7}

VARIABLES
    \* ---- Process Runner (do_run_and_capture) ----
    script,        \* the child's program: the writes it makes, in order
    exit_status,   \* the code the child exits with
    thru_output,   \* do_run_and_capture's parameter (live echo)
    childPc,       \* index of the child's next write; Len(script)+1: about to exit
    childState,    \* "unborn" | "running" | "exited"
    pipe,          \* stream -> the lines written and not yet read
    closed,        \* stream -> the write end is closed (the child has exited)
    rdPc,          \* stream -> the reader thread's position
    line,          \* stream -> the line the reader has just read
    output_list,   \* stream -> the reader's accumulator (stdout_list, stderr_list)
    sink,          \* stream -> what was printed to sys.stdout / sys.stderr
    mainPc,        \* the main thread's position in do_run_and_capture
    result,        \* what do_run_and_capture returned
    \* ---- Code Block Extractor (highlight_and_extract_code) ----
    text,              \* the parameter text
    pickup_the_last,   \* the parameter pickup_the_last
    lines,             \* the lines being scanned (reversed when pickup_the_last)
    scanned,           \* how many of them the for loop has handled
    in_code_block,
    highlighted_lines,
    code_block,
    exPc,              \* "idle" | "start" | "scan" | "done"
    extracted,         \* the returned pair <<highlighted text, code>>
    \* ---- Text Clipper (clip_text) ----
    clipText,          \* the parameter text
    clipMax,           \* the parameter max_chars
    clipPos,           \* the local newline_pos
    clipPc,            \* "idle" | "start" | "loop" | "returned" | "fell_through"
    clipped,           \* the returned text
    \* ---- Orchestrator (main) ----
    args,              \* the parsed command line
    pc,                \* the position of main
    task,
    context,
    command,           \* the response of the generation call
    highlighted_text,
    code,
    exit_code,         \* of the executed command, with stdout and stderr
    stdout,
    stderr,
    analysis,
    chat_log,          \* the calls of chat, in order: the prompt and how it ended
    run_log,           \* the calls of do_run_and_capture, in order
    clipboard,         \* what pyperclip.copy was given, in order
    printed,           \* what main printed to standard output, in order
    process_exit       \* the exit status of the process; -1 while it runs

runnerVars == <<script, exit_status, thru_output, childPc, childState, pipe,
                closed, rdPc, line, output_list, sink, mainPc, result>>

extractVars == <<text, pickup_the_last, lines, scanned, in_code_block,
                 highlighted_lines, code_block, exPc, extracted>>

locals == <<task, context, command, highlighted_text, code, exit_code, stdout,
            stderr, analysis>>

logs == <<chat_log, run_log, clipboard, printed>>

mainVars == <<args, pc, locals, logs, process_exit>>
clipVars == <<clipText, clipMax, clipPos, clipPc, clipped>>

vars == <<runnerVars, extractVars, clipVars, mainVars>>

NoResult == [code |-> -1, stdout |-> <<>>, stderr |-> <<>>]

\* the lines the child's program writes to stream r, in write order
WrittenTo(r) ==
    LET ops == SelectSeq(script, LAMBDA op : op.stream = r)
    IN  [i \in 1..Len(ops) |-> ops[i].bytes]

RunnerInit ==
    /\ script \in SeqsUpTo([stream : Streams, bytes : ChildLines], MaxWrites)
    /\ exit_status \in ExitCodes
    /\ thru_output \in BOOLEAN
    /\ childPc = 1
    /\ childState = "unborn"
    /\ pipe = [r \in Streams |-> <<>>]
    /\ closed = [r \in Streams |-> FALSE]
    /\ rdPc = [r \in Streams |-> "unstarted"]
    /\ line = [r \in Streams |-> <<>>]
    /\ output_list = [r \in Streams |-> <<>>]
    /\ sink = [r \in Streams |-> <<>>]
    /\ mainPc = "popen"
    /\ result = NoResult

\* the Runner is not in use
RunnerIdle ==
    /\ script = <<>>
    /\ exit_status = 0
    /\ thru_output = FALSE
    /\ childPc = 1
    /\ childState = "unborn"
    /\ pipe = [r \in Streams |-> <<>>]
    /\ closed = [r \in Streams |-> FALSE]
    /\ rdPc = [r \in Streams |-> "unstarted"]
    /\ line = [r \in Streams |-> <<>>]
    /\ output_list = [r \in Streams |-> <<>>]
    /\ sink = [r \in Streams |-> <<>>]
    /\ mainPc = "idle"
    /\ result = NoResult

\* subprocess.Popen(["bash", "-c", ...], stdout=PIPE, stderr=PIPE), line 92:
\* the child starts running, or the shell cannot be started and Popen raises
Popen ==
    /\ mainPc = "popen"
    /\ \/ /\ childState' = "running"
          /\ mainPc' = "start_stdout"
       \/ /\ childState' = "unborn"
          /\ mainPc' = "raised"
    /\ UNCHANGED <<script, exit_status, thru_output, childPc, pipe, closed,
                   rdPc, line, output_list, sink, result>>
    /\ UNCHANGED <<extractVars, clipVars, mainVars>>

\* stdout_thread.start(), line 108
StartStdoutThread ==
    /\ mainPc = "start_stdout"
    /\ rdPc' = [rdPc EXCEPT !["out"] = "readline"]
    /\ mainPc' = "start_stderr"
    /\ UNCHANGED <<script, exit_status, thru_output, childPc, childState, pipe,
                   closed, line, output_list, sink, result>>
    /\ UNCHANGED <<extractVars, clipVars, mainVars>>

\* stderr_thread.start(), line 109
StartStderrThread ==
    /\ mainPc = "start_stderr"
    /\ rdPc' = [rdPc EXCEPT !["err"] = "readline"]
    /\ mainPc' = "wait"
    /\ UNCHANGED <<script, exit_status, thru_output, childPc, childState, pipe,
                   closed, line, output_list, sink, result>>
    /\ UNCHANGED <<extractVars, clipVars, mainVars>>

\* the child writes its next line; the write blocks while the pipe is full
ChildWrite ==
    /\ childState = "running"
    /\ childPc <= Len(script)
    /\ LET op == script[childPc]
       IN  /\ Len(pipe[op.stream]) < PipeCap
           /\ pipe' = [pipe EXCEPT ![op.stream] = Append(@, op.bytes)]
    /\ childPc' = childPc + 1
    /\ UNCHANGED <<script, exit_status, thru_output, childState, closed, rdPc,
                   line, output_list, sink, mainPc, result>>
    /\ UNCHANGED <<extractVars, clipVars, mainVars>>

\* the child has made all its writes and exits: both write ends are closed
ChildExit ==
    /\ childState = "running"
    /\ childPc = Len(script) + 1
    /\ childState' = "exited"
    /\ closed' = [r \in Streams |-> TRUE]
    /\ UNCHANGED <<script, exit_status, thru_output, childPc, pipe, rdPc, line,
                   output_list, sink, mainPc, result>>
    /\ UNCHANGED <<extractVars, clipVars, mainVars>>

\* stream.readline() of the loop over iter(stream.readline, b""), lines 69/77:
\* blocks while the pipe is empty and open; b"" at end-of-stream ends the loop
ReadLine(r) ==
    /\ rdPc[r] = "readline"
    /\ \/ /\ pipe[r] # <<>>
          /\ line' = [line EXCEPT ![r] = Head(pipe[r])]
          /\ pipe' = [pipe EXCEPT ![r] = Tail(@)]
          /\ rdPc' = [rdPc EXCEPT ![r] = "decode"]
       \/ /\ pipe[r] = <<>>
          /\ closed[r]
          /\ rdPc' = [rdPc EXCEPT ![r] = "finished"]
          /\ UNCHANGED <<line, pipe>>
    /\ UNCHANGED <<script, exit_status, thru_output, childPc, childState,
                   closed, output_list, sink, mainPc, result>>
    /\ UNCHANGED <<extractVars, clipVars, mainVars>>

\* line = line.decode("utf-8"); output_list.append(line), lines 70-71/78-79:
\* a line that is not UTF-8 raises UnicodeDecodeError, which ends the thread
DecodeAppend(r) ==
    /\ rdPc[r] = "decode"
    /\ IF ValidUtf8(line[r])
       THEN /\ output_list' = [output_list EXCEPT ![r] = Append(@, Decode(line[r]))]
            /\ rdPc' = [rdPc EXCEPT ![r] = IF thru_output THEN "print" ELSE "readline"]
       ELSE /\ rdPc' = [rdPc EXCEPT ![r] = "crashed"]
            /\ UNCHANGED output_list
    /\ UNCHANGED <<script, exit_status, thru_output, childPc, childState, pipe,
                   closed, line, sink, mainPc, result>>
    /\ UNCHANGED <<extractVars, clipVars, mainVars>>

\* PrintThru with the two outputs exchanged: the stdout reader prints to
\* sys.stderr and the stderr reader to sys.stdout
PrintThru_OtherSink(r) ==
    /\ rdPc[r] = "print"
    /\ sink' = [sink EXCEPT ![CHOOSE o \in Streams : o # r] =
                                Append(@, output_list[r][Len(output_list[r])])]
    /\ rdPc' = [rdPc EXCEPT ![r] = "readline"]
    /\ UNCHANGED <<script, exit_status, thru_output, childPc, childState, pipe,
                   closed, line, output_list, mainPc, result>>
    /\ UNCHANGED <<extractVars, clipVars, mainVars>>

\* print(line, file=output, end=""), line 80 (stream_reader_thru only)
PrintThru(r) ==
    /\ rdPc[r] = "print"
    /\ sink' = [sink EXCEPT ![r] = Append(@, output_list[r][Len(output_list[r])])]
    /\ rdPc' = [rdPc EXCEPT ![r] = "readline"]
    /\ UNCHANGED <<script, exit_status, thru_output, childPc, childState, pipe,
                   closed, line, output_list, mainPc, result>>
    /\ UNCHANGED <<extractVars, clipVars, mainVars>>

ThreadEnded(r) == rdPc[r] \in {"finished", "crashed"}

\* process.wait(), line 111: returns once the child has exited
ProcessWait ==
    /\ mainPc = "wait"
    /\ childState = "exited"
    /\ mainPc' = "join_stdout"
    /\ UNCHANGED <<script, exit_status, thru_output, childPc, childState, pipe,
                   closed, rdPc, line, output_list, sink, result>>
    /\ UNCHANGED <<extractVars, clipVars, mainVars>>

\* stdout_thread.join(), line 113: returns once the thread has ended
JoinStdout ==
    /\ mainPc = "join_stdout"
    /\ ThreadEnded("out")
    /\ mainPc' = "join_stderr"
    /\ UNCHANGED <<script, exit_status, thru_output, childPc, childState, pipe,
                   closed, rdPc, line, output_list, sink, result>>
    /\ UNCHANGED <<extractVars, clipVars, mainVars>>

\* stderr_thread.join(), line 114
JoinStderr ==
    /\ mainPc = "join_stderr"
    /\ ThreadEnded("err")
    /\ mainPc' = "collect"
    /\ UNCHANGED <<script, exit_status, thru_output, childPc, childState, pipe,
                   closed, rdPc, line, output_list, sink, result>>
    /\ UNCHANGED <<extractVars, clipVars, mainVars>>

\* "".join(stdout_list).rstrip(), "".join(stderr_list).rstrip() and the return,
\* lines 116-119
Return ==
    /\ mainPc = "collect"
    /\ result' = [code   |-> exit_status,
                  stdout |-> RStrip(Concat(output_list["out"])),
                  stderr |-> RStrip(Concat(output_list["err"]))]
    /\ mainPc' = "returned"
    /\ UNCHANGED <<script, exit_status, thru_output, childPc, childState, pipe,
                   closed, rdPc, line, output_list, sink>>
    /\ UNCHANGED <<extractVars, clipVars, mainVars>>

RunnerNext ==
    \/ Popen
    \/ StartStdoutThread
    \/ StartStderrThread
    \/ ChildWrite
    \/ ChildExit
    \/ \E r \in Streams : ReadLine(r)
    \/ \E r \in Streams : DecodeAppend(r)
    \/ \E r \in Streams : PrintThru(r)
    \/ ProcessWait
    \/ JoinStdout
    \/ JoinStderr
    \/ Return

(***************************************************************************)
(* Code Block Extractor: highlight_and_extract_code, lines 122-153.        *)
(***************************************************************************)
\* the backquote character (written as a name: a string of the module cannot
\* hold the character itself)
BQ == "bq"

\* the three backquotes of a fence line
Fence == <<BQ, BQ, BQ>>

\* re.compile of a caret and three backquotes, lines 129-130: the literal
pat_code_block_start == Fence
pat_code_block_end == Fence

\* pat.match(l) for a pattern "^" + literal: l starts with the literal
PatMatch(pat, l) == Len(l) >= Len(pat) /\ SubSeq(l, 1, Len(pat)) = pat

\* colored(l, "green", attrs=["bold"]) of termcolor: l between escape codes
colored(l) == <<"ESC[1m", "ESC[32m">> \o l \o <<"ESC[0m">>

\* lines 132-134: with pickup_the_last the two patterns are swapped
StartPat(last) == IF last THEN pat_code_block_end ELSE pat_code_block_start
EndPat(last) == IF last THEN pat_code_block_start ELSE pat_code_block_end

ScanStart == [in_code_block |-> FALSE, highlighted_lines |-> <<>>, code_block |-> <<>>]

\* one iteration of the loop over lines, lines 136-147
ScanStep(st, l, last) ==
    IF st.in_code_block
    THEN IF PatMatch(StartPat(last), l)
         THEN [st EXCEPT !.highlighted_lines = Append(@, l),
                         !.in_code_block = FALSE]
         ELSE [st EXCEPT !.code_block = Append(@, l),
                         !.highlighted_lines = Append(@, colored(l))]
    ELSE [st EXCEPT !.highlighted_lines = Append(@, l),
                    !.in_code_block =
                        st.code_block = <<>> /\ PatMatch(EndPat(last), l)]

\* lines 125 and 132-133: the lines to scan
ScanOrder(t, last) == IF last THEN Reverse(SplitLines(t)) ELSE SplitLines(t)

\* ScanResult without lines 149-151: the highlighted lines stay in scan order
ScanResult_NoReverse(st, last) ==
    IF last
    THEN <<JoinNL(st.highlighted_lines), JoinNL(Reverse(st.code_block))>>
    ELSE <<JoinNL(st.highlighted_lines), JoinNL(st.code_block)>>

\* lines 149-153: the returned pair
ScanResult(st, last) ==
    IF last
    THEN <<JoinNL(Reverse(st.highlighted_lines)), JoinNL(Reverse(st.code_block))>>
    ELSE <<JoinNL(st.highlighted_lines), JoinNL(st.code_block)>>

RECURSIVE ScanAll(_, _, _)
\* the whole for loop
ScanAll(st, ls, last) ==
    IF ls = <<>> THEN st ELSE ScanAll(ScanStep(st, Head(ls), last), Tail(ls), last)

\* highlight_and_extract_code(text, pickup_the_last) as one function
highlight_and_extract_code(t, last) ==
    ScanResult(ScanAll(ScanStart, ScanOrder(t, last), last), last)

\* the lines of the texts given to the Extractor: a fence, a fence after a
\* space, a line "a" and an empty line
ExtractLines == {Fence, <<" ">> \o Fence, <<"a">>, <<>>}

\* the texts: up to MaxLines such lines, with or without a final line break
Texts ==
    {JoinNL(ls) \o tail : ls \in SeqsUpTo(ExtractLines, MaxLines),
                          tail \in {<<>>, <<"\n">>}}

ExtractInit ==
    /\ text \in Texts
    /\ pickup_the_last \in BOOLEAN
    /\ lines = <<>>
    /\ scanned = 0
    /\ in_code_block = FALSE
    /\ highlighted_lines = <<>>
    /\ code_block = <<>>
    /\ exPc = "start"
    /\ extracted = <<>>

\* the Extractor is not in use
ExtractIdle ==
    /\ text = <<>>
    /\ pickup_the_last = FALSE
    /\ lines = <<>>
    /\ scanned = 0
    /\ in_code_block = FALSE
    /\ highlighted_lines = <<>>
    /\ code_block = <<>>
    /\ exPc = "idle"
    /\ extracted = <<>>

\* lines 125-134: split the text, reverse the lines when pickup_the_last
StartScan ==
    /\ exPc = "start"
    /\ lines' = ScanOrder(text, pickup_the_last)
    /\ in_code_block' = ScanStart.in_code_block
    /\ highlighted_lines' = ScanStart.highlighted_lines
    /\ code_block' = ScanStart.code_block
    /\ exPc' = "scan"
    /\ UNCHANGED <<text, pickup_the_last, scanned, extracted>>
    /\ UNCHANGED <<runnerVars, clipVars, mainVars>>

\* lines 136-147: the loop handles its next line
ScanLine ==
    /\ exPc = "scan"
    /\ scanned < Len(lines)
    /\ LET st == ScanStep([in_code_block |-> in_code_block,
                           highlighted_lines |-> highlighted_lines,
                           code_block |-> code_block],
                          lines[scanned + 1], pickup_the_last)
       IN  /\ in_code_block' = st.in_code_block
           /\ highlighted_lines' = st.highlighted_lines
           /\ code_block' = st.code_block
    /\ scanned' = scanned + 1
    /\ UNCHANGED <<text, pickup_the_last, lines, exPc, extracted>>
    /\ UNCHANGED <<runnerVars, clipVars, mainVars>>

\* lines 149-153: the loop is over; reverse back and join
FinishScan ==
    /\ exPc = "scan"
    /\ scanned = Len(lines)
    /\ extracted' = ScanResult([in_code_block |-> in_code_block,
                                highlighted_lines |-> highlighted_lines,
                                code_block |-> code_block], pickup_the_last)
    /\ exPc' = "done"
    /\ UNCHANGED <<text, pickup_the_last, lines, scanned, in_code_block,
                   highlighted_lines, code_block>>
    /\ UNCHANGED <<runnerVars, clipVars, mainVars>>

ExtractNext == StartScan \/ ScanLine \/ FinishScan


(***************************************************************************)
(* Text Clipper: clip_text, lines 49-63.                                   *)
(***************************************************************************)
\* s[:n] of Python: the first n items, or all but the last -n when n < 0
Prefix(s, n) ==
    LET k == IF n >= 0 THEN n ELSE Len(s) + n
    IN  SubSeq(s, 1, IF k > Len(s) THEN Len(s) ELSE k)

\* line 53: " ...(snip)... "
snip_str == <<" ", ".", ".", ".", "(", "s", "n", "i", "p", ")", ".", ".", ".", " ">>

RECURSIVE ClipWalk(_, _, _)
\* the while loop, lines 59-63: newline_pos moves to the next line break as
\* long as that one is within max_chars
ClipWalk(t, max_chars, newline_pos) ==
    LET next_newline_pos == Find(t, "\n", newline_pos + 1)
    IN  IF next_newline_pos < 0 \/ next_newline_pos > max_chars
        THEN Prefix(t, newline_pos + 1) \o snip_str \o <<"\n">>
        ELSE ClipWalk(t, max_chars, next_newline_pos)

clip_text(t, max_chars) ==
    IF Len(t) = 0 THEN <<>>
    ELSE LET newline_pos == Find(t, "\n", 0)
         IN  IF newline_pos < 0 \/ newline_pos > max_chars
             THEN Prefix(t, max_chars) \o snip_str \o <<"\n">>
             ELSE ClipWalk(t, max_chars, newline_pos)

\* the texts given to clip_text: up to MaxClipLen characters, letters and
\* line breaks; the limits: 0 to MaxClipChars
ClipTexts == SeqsUpTo({"a", "b", "\n"}, MaxClipLen)
ClipLimits == 0..MaxClipChars

ClipInit ==
    /\ clipText \in ClipTexts
    /\ clipMax \in ClipLimits
    /\ clipPos = -1
    /\ clipPc = "start"
    /\ clipped = <<>>

\* clip_text is not in use
ClipIdle ==
    /\ clipText = <<>>
    /\ clipMax = 0
    /\ clipPos = -1
    /\ clipPc = "idle"
    /\ clipped = <<>>

\* lines 50-57: up to the while loop; either a return or the first line break
ClipEntry(t, max_chars) ==
    IF Len(t) = 0 THEN [pc |-> "returned", newline_pos |-> -1, ret |-> <<>>]
    ELSE LET newline_pos == Find(t, "\n", 0)
         IN  IF newline_pos < 0 \/ newline_pos > max_chars
             THEN [pc |-> "returned", newline_pos |-> newline_pos,
                   ret |-> Prefix(t, max_chars) \o snip_str \o <<"\n">>]
             ELSE [pc |-> "loop", newline_pos |-> newline_pos, ret |-> <<>>]

\* ClipIteration searching from newline_pos itself, not from the character
\* after it
ClipIteration_SamePos(t, max_chars, newline_pos) ==
    IF newline_pos >= 0
    THEN LET next_newline_pos == Find(t, "\n", newline_pos)
         IN  IF next_newline_pos < 0 \/ next_newline_pos > max_chars
             THEN [pc |-> "returned", newline_pos |-> newline_pos,
                   ret |-> Prefix(t, newline_pos + 1) \o snip_str \o <<"\n">>]
             ELSE [pc |-> "loop", newline_pos |-> next_newline_pos, ret |-> <<>>]
    ELSE [pc |-> "fell_through", newline_pos |-> newline_pos, ret |-> <<>>]

\* lines 59-63: the test of the while loop and one iteration; were the test
\* false the function would fall through its end without a return statement
ClipIteration(t, max_chars, newline_pos) ==
    IF newline_pos >= 0
    THEN LET next_newline_pos == Find(t, "\n", newline_pos + 1)
         IN  IF next_newline_pos < 0 \/ next_newline_pos > max_chars
             THEN [pc |-> "returned", newline_pos |-> newline_pos,
                   ret |-> Prefix(t, newline_pos + 1) \o snip_str \o <<"\n">>]
             ELSE [pc |-> "loop", newline_pos |-> next_newline_pos, ret |-> <<>>]
    ELSE [pc |-> "fell_through", newline_pos |-> newline_pos, ret |-> <<>>]

\* lines 50-57
ClipEnter ==
    /\ clipPc = "start"
    /\ LET e == ClipEntry(clipText, clipMax)
       IN  /\ clipPc' = e.pc
           /\ clipPos' = e.newline_pos
           /\ clipped' = e.ret
    /\ UNCHANGED <<clipText, clipMax>>
    /\ UNCHANGED <<runnerVars, extractVars, mainVars>>

\* lines 59-63
ClipIterate ==
    /\ clipPc = "loop"
    /\ LET e == ClipIteration(clipText, clipMax, clipPos)
       IN  /\ clipPc' = e.pc
           /\ clipPos' = e.newline_pos
           /\ clipped' = e.ret
    /\ UNCHANGED <<clipText, clipMax>>
    /\ UNCHANGED <<runnerVars, extractVars, mainVars>>

ClipNext == ClipEnter \/ ClipIterate

(***************************************************************************)
(* Prompt Builder, lines 27-46 and 156-197.  The fixed texts of the        *)
(* program are single items of a prompt.                                   *)
(***************************************************************************)
\* PROMPTINGS, lines 32-46; "none" stands for no --prompting option
PROMPTINGS ==
    [sbs |-> [text |-> <<"(Let's work this out in a step by step way ...">>,
              extract_last_command |-> TRUE],
     tot |-> [text |-> <<"magine three different experts ...">>,
              extract_last_command |-> TRUE]]

\* str(n) for n >= 0
RECURSIVE Str(_)
Str(n) ==
    LET d == <<"0", "1", "2", "3", "4", "5", "6", "7", "8", "9">>[(n % 10) + 1]
    IN  IF n < 10 THEN <<d>> ELSE Str(n \div 10) \o <<d>>

\* lines 156-167; None (no context) is the empty string here: the code only
\* tests the truth of context, and None and "" are both false
format_command_generation_prompt(task_, context_, generate_script, prompting) ==
    LET p0 == IF prompting \in DOMAIN PROMPTINGS THEN PROMPTINGS[prompting].text
              ELSE <<>>
        p1 == p0 \o (IF generate_script
                     THEN <<"Please provide a script to accomplish the following task.">>
                     ELSE <<"Please provide a command line to accomplish the following task.">>)
        p2 == IF task_ # <<>> THEN p1 \o <<"\n## TASK\n">> \o task_ \o <<"\n">> ELSE p1
    IN  IF context_ # <<>> THEN p2 \o <<"\n## CONTEXT\n">> \o context_ \o <<"\n">>
        ELSE p2

\* format_analysis_prompt without the tests of lines 179 and 181: the STDOUT
\* and STDERR sections are written also when they are empty
format_analysis_prompt_EmptySections(code_, task_, context_, stdout_, stderr_) ==
    LET p0 == <<"Analyze the result of the command.\n">>
        p1 == IF task_ # <<>> THEN p0 \o <<"\n## TASK\n">> \o task_ \o <<"\n">> ELSE p0
        p2 == IF context_ # <<>> THEN p1 \o <<"\n## CONTEXT\n">> \o context_ \o <<"\n">>
              ELSE p1
        p3 == p2 \o <<"\n## COMMAND\n">> \o Fence \o <<"\n">> \o code_ \o <<"\n">>
                 \o Fence \o <<"\n">>
        p4 == p3 \o <<"\n## STDOUT\n">> \o stdout_ \o <<"\n">>
    IN  p4 \o <<"\n## STDERR\n">> \o stderr_ \o <<"\n">>

\* lines 170-182
format_analysis_prompt(code_, task_, context_, stdout_, stderr_) ==
    LET p0 == <<"Analyze the result of the command.\n">>
        p1 == IF task_ # <<>> THEN p0 \o <<"\n## TASK\n">> \o task_ \o <<"\n">> ELSE p0
        p2 == IF context_ # <<>> THEN p1 \o <<"\n## CONTEXT\n">> \o context_ \o <<"\n">>
              ELSE p1
        p3 == p2 \o <<"\n## COMMAND\n">> \o Fence \o <<"\n">> \o code_ \o <<"\n">>
                 \o Fence \o <<"\n">>
        p4 == IF stdout_ # <<>> THEN p3 \o <<"\n## STDOUT\n">> \o stdout_ \o <<"\n">>
              ELSE p3
    IN  IF stderr_ # <<>> THEN p4 \o <<"\n## STDERR\n">> \o stderr_ \o <<"\n">> ELSE p4

\* lines 188-197 of build_reference_context, given what do_run_and_capture
\* returned for the reference command
build_reference_context(command_, max_chars, res) ==
    LET r0 == <<Fence, <<"$", " ">> \o command_>>
        r1 == IF res.stdout # <<>> THEN Append(r0, clip_text(res.stdout, max_chars))
              ELSE r0
        r2 == IF res.stderr # <<>> THEN Append(r1, clip_text(res.stderr, max_chars))
              ELSE r1
        r3 == IF res.code # 0 THEN Append(r2, <<"EXIT CODE: ">> \o Str(res.code))
              ELSE r2
    IN  JoinNL(Append(r3, Fence))

(***************************************************************************)
(* Orchestrator: main, lines 200-295.  A call of do_run_and_capture is one *)
(* step here: it returns some result (exit code, stdout, stderr), or       *)
(* Popen raises.  A call of chat returns some response or raises.          *)
(***************************************************************************)
\* line 25
DEFAULT_OUTPUT_MAX_CHARS == 2000

\* the texts do_run_and_capture may return as stdout or stderr (trimmed)
Captured == {<<>>, <<"a">>, <<"a", "\n", "a">>}
RunResults == [code : ExitCodes, stdout : Captured, stderr : Captured]

\* the responses of the model to the generation prompt
Responses == {JoinNL(ls) : ls \in SeqsUpTo({Fence, <<"a">>, <<>>}, MaxResponseLines)}

\* the responses of the model to the analysis prompt
Analyses == {<<>>, <<"o", "k">>}

\* the command lines: the task words, -r, -s, -f, -M and -p
ArgsSet ==
    [task : {<<>>, <<<<>>>>, <<<<"t">>>>, <<<<"t">>, <<"u">>>>},
     run : BOOLEAN,
     script : BOOLEAN,
     refer : {<<>>, <<"l", "s">>},
     max_chars : {2, DEFAULT_OUTPUT_MAX_CHARS},
     prompting : {"none", "sbs", "tot"}]

MainInit ==
    /\ args \in ArgsSet
    /\ pc = "parse"
    /\ task = <<>>
    /\ context = <<>>
    /\ command = <<>>
    /\ highlighted_text = <<>>
    /\ code = <<>>
    /\ exit_code = 0
    /\ stdout = <<>>
    /\ stderr = <<>>
    /\ analysis = <<>>
    /\ chat_log = <<>>
    /\ run_log = <<>>
    /\ clipboard = <<>>
    /\ printed = <<>>
    /\ process_exit = -1

\* main is not in use
MainIdle ==
    /\ args = [task |-> <<>>, run |-> FALSE, script |-> FALSE, refer |-> <<>>,
               max_chars |-> DEFAULT_OUTPUT_MAX_CHARS, prompting |-> "none"]
    /\ pc = "idle"
    /\ task = <<>>
    /\ context = <<>>
    /\ command = <<>>
    /\ highlighted_text = <<>>
    /\ code = <<>>
    /\ exit_code = 0
    /\ stdout = <<>>
    /\ stderr = <<>>
    /\ analysis = <<>>
    /\ chat_log = <<>>
    /\ run_log = <<>>
    /\ clipboard = <<>>
    /\ printed = <<>>
    /\ process_exit = -1

\* UsageError without the mutually exclusive group: no combination is rejected
UsageError_None(a) == FALSE

\* lines 205-214: -r and -s are in one mutually exclusive group of argparse
UsageError(a) == a.run /\ a.script

\* lines 243-247: parse_args rejects -r with -s (exit status 2); no task word
\* is an error (exit status 1); otherwise the task words are joined
ParseArgs ==
    /\ pc = "parse"
    /\ IF UsageError(args)
       THEN /\ pc' = "usage_error"
            /\ process_exit' = 2
            /\ UNCHANGED task
       ELSE IF args.task = <<>>
       THEN /\ pc' = "usage_error"
            /\ process_exit' = 1
            /\ UNCHANGED task
       ELSE /\ pc' = "build_context"
            /\ task' = JoinWith(<<" ">>, args.task)
            /\ UNCHANGED process_exit
    /\ UNCHANGED <<args, context, command, highlighted_text, code, exit_code,
                   stdout, stderr, analysis, logs>>
    /\ UNCHANGED <<runnerVars, extractVars, clipVars>>

\* a mutant of ReferThru: the reference command is run with live echo
ReferThru_Live == TRUE

\* line 187: the reference command is run with thru_output=False
ReferThru == FALSE

\* line 259 with build_reference_context, lines 185-197
BuildContext ==
    /\ pc = "build_context"
    /\ IF args.refer # <<>>
       THEN \/ \E res \in RunResults :
                 /\ run_log' = Append(run_log, [cmd |-> args.refer, thru |-> ReferThru,
                                                res |-> res, chats |-> Len(chat_log)])
                 /\ context' = build_reference_context(args.refer, args.max_chars, res)
                 /\ pc' = "generate"
                 /\ UNCHANGED process_exit
            \/ /\ pc' = "aborted"
               /\ process_exit' = 1
               /\ UNCHANGED <<run_log, context>>
       ELSE /\ context' = <<>>
            /\ pc' = "generate"
            /\ UNCHANGED <<run_log, process_exit>>
    /\ UNCHANGED <<args, task, command, highlighted_text, code, exit_code, stdout,
                   stderr, analysis, chat_log, clipboard, printed>>
    /\ UNCHANGED <<runnerVars, extractVars, clipVars>>

\* a mutant of ChatErrorPc: the error is caught and the call is made again
ChatErrorPc_Retry(at) == at

\* lines 252-257: an error of ollama.chat is not caught anywhere: main ends
\* with the exception
ChatErrorPc(at) == "aborted"

\* lines 261-269: the generation prompt and the first call of chat
Generate ==
    /\ pc = "generate"
    /\ Len(chat_log) < ChatCap
    /\ LET p == format_command_generation_prompt(task, context, args.script,
                                                 args.prompting)
       IN  \/ \E response \in Responses :
                 /\ chat_log' = Append(chat_log, [prompt |-> p, ok |-> TRUE])
                 /\ command' = response
                 /\ pc' = "extract"
                 /\ UNCHANGED process_exit
           \/ /\ chat_log' = Append(chat_log, [prompt |-> p, ok |-> FALSE])
              /\ pc' = ChatErrorPc("generate")
              /\ process_exit' = IF ChatErrorPc("generate") = "aborted" THEN 1 ELSE -1
              /\ UNCHANGED command
    /\ UNCHANGED <<args, task, context, highlighted_text, code, exit_code, stdout,
                   stderr, analysis, run_log, clipboard, printed>>
    /\ UNCHANGED <<runnerVars, extractVars, clipVars>>

\* line 272: pickup_the_last=pt and pt.extract_last_command
PickupTheLast(prompting) ==
    prompting \in DOMAIN PROMPTINGS /\ PROMPTINGS[prompting].extract_last_command

\* lines 271-273: extract the command and print the highlighted response
Extract ==
    /\ pc = "extract"
    /\ LET ex == highlight_and_extract_code(command, PickupTheLast(args.prompting))
       IN  /\ highlighted_text' = ex[1]
           /\ code' = ex[2]
           /\ printed' = Append(printed, ex[1])
    /\ pc' = "branch"
    /\ UNCHANGED <<args, task, context, command, exit_code, stdout, stderr,
                   analysis, chat_log, run_log, clipboard, process_exit>>
    /\ UNCHANGED <<runnerVars, extractVars, clipVars>>

\* a mutant of Branch: the code is copied to the clipboard in run mode too
Branch_CopyAlways(code_, run) == IF code_ # <<>> THEN "copy" ELSE "nothing"

\* a mutant of Branch: the test of line 275 is missing
Branch_NoCodeTest(code_, run) == IF run THEN "execute" ELSE "copy"

\* lines 275-276 and 292: what main does with the extracted code
Branch(code_, run) ==
    IF code_ # <<>> THEN (IF run THEN "execute" ELSE "copy") ELSE "nothing"

\* lines 277-279: the RUN banner and do_run_and_capture(code), with live echo
Execute ==
    /\ pc = "branch"
    /\ Branch(code, args.run) = "execute"
    /\ printed' = Append(printed, <<"-- RUN", ": ">> \o code)
    /\ \/ \E res \in RunResults :
             /\ run_log' = Append(run_log, [cmd |-> code, thru |-> TRUE,
                                            res |-> res, chats |-> Len(chat_log)])
             /\ exit_code' = res.code
             /\ stdout' = res.stdout
             /\ stderr' = res.stderr
             /\ pc' = "ran"
             /\ UNCHANGED process_exit
       \/ /\ pc' = "aborted"
          /\ process_exit' = 1
          /\ UNCHANGED <<run_log, exit_code, stdout, stderr>>
    /\ UNCHANGED <<args, task, context, command, highlighted_text, code, analysis,
                   chat_log, clipboard>>
    /\ UNCHANGED <<runnerVars, extractVars, clipVars>>

\* a mutant of NeedsDiagnosis: the analysis is asked for after every run
NeedsDiagnosis_Always(ec) == TRUE

\* line 280: the analysis is asked for when the command failed
NeedsDiagnosis(ec) == ec # 0

\* the context given to format_analysis_prompt, line 283
AnalysisContext(context_) == context_

\* lines 280-290: the DEBUG banner, the analysis prompt, the second call of
\* chat and the print of its response
Diagnose ==
    /\ pc = "ran"
    /\ NeedsDiagnosis(exit_code)
    /\ Len(chat_log) < ChatCap
    /\ LET p == format_analysis_prompt(code, task, AnalysisContext(context),
                                       clip_text(stdout, args.max_chars),
                                       clip_text(stderr, args.max_chars))
       IN  \/ \E response \in Analyses :
                 /\ chat_log' = Append(chat_log, [prompt |-> p, ok |-> TRUE])
                 /\ analysis' = response
                 /\ printed' = printed \o <<<<"-- DEBUG">>, response>>
                 /\ pc' = "exit"
                 /\ UNCHANGED process_exit
           \/ /\ chat_log' = Append(chat_log, [prompt |-> p, ok |-> FALSE])
              /\ printed' = Append(printed, <<"-- DEBUG">>)
              /\ pc' = ChatErrorPc("ran")
              /\ process_exit' = IF ChatErrorPc("ran") = "aborted" THEN 1 ELSE -1
              /\ UNCHANGED analysis
    /\ UNCHANGED <<args, task, context, command, highlighted_text, code, exit_code,
                   stdout, stderr, run_log, clipboard>>
    /\ UNCHANGED <<runnerVars, extractVars, clipVars>>

\* a mutant of ExitStatus: main returns instead of calling exit(exit_code)
ExitStatus_Dropped(ec) == 0

\* exit(exit_code), line 291: the exit status of the process is one byte
ExitStatus(ec) == ec % 256

\* line 291, reached after the analysis or at once when the command succeeded
Exit ==
    /\ \/ pc = "exit"
       \/ pc = "ran" /\ ~NeedsDiagnosis(exit_code)
    /\ process_exit' = ExitStatus(exit_code)
    /\ pc' = "done"
    /\ UNCHANGED <<args, locals, logs>>
    /\ UNCHANGED <<runnerVars, extractVars, clipVars>>

\* lines 293-295: pyperclip.copy(code) and the COPIED banner; main returns
\* (exit status 0); an error of pyperclip.copy is not caught
Copy ==
    /\ pc = "branch"
    /\ Branch(code, args.run) = "copy"
    /\ \/ /\ clipboard' = Append(clipboard, code)
          /\ printed' = Append(printed, <<"-- COPIED THE HIGHLIGHTED CODE TO CLIPBOARD">>)
          /\ pc' = "done"
          /\ process_exit' = 0
       \/ /\ pc' = "aborted"
          /\ process_exit' = 1
          /\ UNCHANGED <<clipboard, printed>>
    /\ UNCHANGED <<args, locals, chat_log, run_log>>
    /\ UNCHANGED <<runnerVars, extractVars, clipVars>>

\* line 275 false: no code was extracted and main returns (exit status 0)
NothingToDo ==
    /\ pc = "branch"
    /\ Branch(code, args.run) = "nothing"
    /\ pc' = "done"
    /\ process_exit' = 0
    /\ UNCHANGED <<args, locals, logs>>
    /\ UNCHANGED <<runnerVars, extractVars, clipVars>>

Next ==
    \/ ParseArgs
    \/ BuildContext
    \/ Generate
    \/ Extract
    \/ Execute
    \/ Diagnose
    \/ Exit
    \/ Copy
    \/ NothingToDo

(***************************************************************************)
(* Specifications: one per component.                                      *)
(***************************************************************************)
\* one call of do_run_and_capture, for every child program within the bounds
InitRunner == RunnerInit /\ ExtractIdle /\ ClipIdle /\ MainIdle
SpecRunner == InitRunner /\ [][RunnerNext]_vars

\* one call of highlight_and_extract_code, for every text within the bounds
InitExtract == ExtractInit /\ RunnerIdle /\ ClipIdle /\ MainIdle
SpecExtract == InitExtract /\ [][ExtractNext]_vars

\* one invocation of main, for every command line within the bounds
Init == MainInit /\ RunnerIdle /\ ExtractIdle /\ ClipIdle
Spec == Init /\ [][Next]_vars

\* clip_text alone, for all texts and limits; a call of a function runs on
\* until it returns, hence the fairness
InitClip == ClipInit /\ RunnerIdle /\ ExtractIdle /\ MainIdle
SpecClip == InitClip /\ [][ClipNext]_vars /\ WF_vars(ClipNext)

(***************************************************************************)
(* Process Runner: claims C1 and C2.                                       *)
(***************************************************************************)
\* the child's next write cannot proceed: its pipe is full
ChildBlocked ==
    /\ childState = "running"
    /\ childPc <= Len(script)
    /\ Len(pipe[script[childPc].stream]) >= PipeCap

RunnerStopped == mainPc \in {"returned", "raised"}

\* C1: do_run_and_capture is free of deadlock: whatever lines the child writes
\* to stdout and stderr, until the call has returned some thread or the child
\* can take a step, and the child is never blocked on a full pipe whose reader
\* thread has ended (so that nobody will ever drain it).
C1_DeadlockFree ==
    /\ ~RunnerStopped => ENABLED RunnerNext
    /\ ~(ChildBlocked /\ ThreadEnded(script[childPc].stream))

\* C2: do_run_and_capture returns only after the child has exited and both
\* readers have reached end-of-stream; the accumulators then hold exactly the
\* lines the child wrote to each stream, in write order, and the result is
\* their trimmed concatenation and the child's exit code.
C2_ReturnsAllLines ==
    mainPc = "returned" =>
        /\ childState = "exited"
        /\ \A r \in Streams :
              /\ rdPc[r] = "finished"
              /\ pipe[r] = <<>>
              /\ Len(output_list[r]) = Len(WrittenTo(r))
              /\ \A i \in 1..Len(WrittenTo(r)) :
                    ValidUtf8(WrittenTo(r)[i]) =>
                        output_list[r][i] = Decode(WrittenTo(r)[i])
        /\ result.code = exit_status
        /\ result.stdout = RStrip(Concat(output_list["out"]))
        /\ result.stderr = RStrip(Concat(output_list["err"]))

(***************************************************************************)
(* Process Runner: claim C19.                                              *)
(***************************************************************************)
\* s is a prefix of t
IsPrefix(s, t) == Len(s) <= Len(t) /\ SubSeq(t, 1, Len(s)) = s

\* C19: with live echo each reader prints a line to its own output (the
\* stdout reader to sys.stdout, the stderr reader to sys.stderr) right after
\* appending it and before it reads the next one: what was printed to an
\* output is always a prefix of that stream's accumulator, at most one line
\* behind it, behind only between the append and the print, made of the
\* lines the child wrote to that stream, and equal to the accumulator when
\* do_run_and_capture returns.  Without live echo nothing is printed.
C19_LiveEcho ==
    \A r \in Streams :
        IF thru_output
        THEN /\ IsPrefix(sink[r], output_list[r])
             /\ Len(output_list[r]) - Len(sink[r]) <= 1
             /\ (Len(sink[r]) < Len(output_list[r])) <=> (rdPc[r] = "print")
             /\ \A i \in 1..Len(sink[r]) : sink[r][i] = Decode(WrittenTo(r)[i])
             /\ mainPc = "returned" => sink[r] = output_list[r]
        ELSE sink[r] = <<>>

\* C19 witness: with live echo, the stdout reader has appended its second
\* line and not yet printed it, after printing the first; the stderr reader
\* has printed a line to its own output
C19_Witness ==
    /\ thru_output
    /\ rdPc["out"] = "print"
    /\ Len(sink["out"]) = 1
    /\ Len(output_list["out"]) = 2
    /\ Len(sink["err"]) = 1
    /\ sink["err"] # sink["out"]

(***************************************************************************)
(* Code Block Extractor: claims C9 and C10.                                *)
(***************************************************************************)
RECURSIVE LStrip(_)
\* str.lstrip()
LStrip(s) == IF s # <<>> /\ s[1] \in Whitespace THEN LStrip(Tail(s)) ELSE s

\* a fence line as the specification words it: its trimmed content starts
\* with the three backquotes
IsFenceLine(l) == PatMatch(Fence, LStrip(RStrip(l)))

\* the text holds a complete fenced block: two fence lines
HasCompleteBlock(t) ==
    LET ls == SplitLines(t)
    IN  \E i, j \in 1..Len(ls) : i < j /\ IsFenceLine(ls[i]) /\ IsFenceLine(ls[j])

\* C9: for a text without a complete fenced block (no fence line, or one
\* fence line that no second one follows), in either scan direction the
\* Extractor returns the empty block content and the lines of the text
\* unchanged, none annotated.
C9_NoBlockNoAnnotation ==
    (exPc = "done" /\ ~HasCompleteBlock(text)) =>
        /\ extracted[2] = <<>>
        /\ extracted[1] = JoinNL(SplitLines(text))

\* the positions, among the lines handled so far, of the lines the scanner
\* takes for a fence
ScannedFences ==
    {i \in 1..scanned : PatMatch(pat_code_block_start, lines[i])}

\* the first fence line handled and the fence line that closed its block
FirstFence == CHOOSE i \in ScannedFences : \A j \in ScannedFences : i <= j
SecondFence ==
    CHOOSE i \in ScannedFences \ {FirstFence} :
        \A j \in ScannedFences \ {FirstFence} : i <= j

\* the first block of the scan has been opened and closed
FirstBlockClosed == exPc = "scan" /\ Cardinality(ScannedFences) >= 2

\* C10: once the second fence line has closed the first block, the scanner
\* is never in a block again: the block content stays the lines between the
\* two fences and every later line, fence or not, is reproduced as it is.
C10_OnlyFirstBlock ==
    FirstBlockClosed =>
        /\ ~in_code_block
        /\ code_block = SubSeq(lines, FirstFence + 1, SecondFence - 1)
        /\ \A k \in SecondFence..scanned : highlighted_lines[k] = lines[k]

(***************************************************************************)
(* Code Block Extractor: claims C11, C12, C17 and C20.                     *)
(***************************************************************************)
\* the positions of the fence lines among the lines ls, in order
FencePositions(ls) ==
    LET IsFenceAt(i) == IsFenceLine(ls[i])
    IN  SelectSeq([i \in 1..Len(ls) |-> i], IsFenceAt)

\* the fence lines of the text pair up into one or more blocks
NumBlocks(t) == Len(FencePositions(SplitLines(t))) \div 2
WellFormedBlocks(t) ==
    LET f == FencePositions(SplitLines(t))
    IN  Len(f) >= 2 /\ Len(f) % 2 = 0

\* the lines between the fences of the k-th block
BlockContent(ls, k) ==
    LET f == FencePositions(ls)
    IN  SubSeq(ls, f[2 * k - 1] + 1, f[2 * k] - 1)

\* C11: for a text whose fence lines pair up into one or more blocks, the
\* returned block content is the content of the first block when scanning
\* from the start and of the last block when scanning from the end, its
\* lines in the order of the text; with one block the two directions agree.
C11_FirstOrLastBlock ==
    (exPc = "done" /\ WellFormedBlocks(text)) =>
        /\ extracted[2] =
               JoinNL(BlockContent(SplitLines(text),
                                   IF pickup_the_last THEN NumBlocks(text) ELSE 1))
        /\ NumBlocks(text) = 1 =>
               extracted[2] = highlight_and_extract_code(text, ~pickup_the_last)[2]

\* the escape codes colored puts around a line
EscCodes == {"ESC[1m", "ESC[32m", "ESC[0m"}

\* a text with the highlighting markup removed
StripMarkup(s) ==
    LET NotEsc(c) == c \notin EscCodes
    IN  SelectSeq(s, NotEsc)

\* line k of the annotated text is line k of the input, as it is or annotated
SameLine(annotated, ls, k) ==
    annotated[k] = ls[k] \/ annotated[k] = colored(ls[k])

\* C12 as stated: for every text and either scan direction the annotated
\* text has as many lines as the input and, with the markup removed, the
\* same lines in the same order.
C12_Lossless ==
    exPc = "done" =>
        /\ Len(SplitLines(StripMarkup(extracted[1]))) = Len(SplitLines(text))
        /\ SplitLines(StripMarkup(extracted[1])) = SplitLines(text)

\* C12, amended: for every text and either scan direction the annotated text
\* with the markup removed is the lines of the input joined by single line
\* breaks, so the line break that ends the input is not reproduced; when the
\* last line of the input is not empty the annotated text has as many lines
\* as the input, each one the input line as it is or annotated, and with the
\* markup removed the same lines in the same order; when the last line of
\* the input is empty the text without markup has lost that one line.
C12_LosslessJoined ==
    exPc = "done" =>
        LET ls == SplitLines(text)
            annotated == SplitLines(extracted[1])
            plain == SplitLines(StripMarkup(extracted[1]))
        IN  /\ StripMarkup(extracted[1]) = JoinNL(ls)
            /\ IF ls # <<>> /\ ls[Len(ls)] = <<>>
               THEN plain = SubSeq(ls, 1, Len(ls) - 1)
               ELSE /\ plain = ls
                    /\ Len(annotated) = Len(ls)
                    /\ \A k \in 1..Len(ls) : SameLine(annotated, ls, k)

\* C12 witness: scanning from the end, a block was extracted and annotated
\* from a text of several lines that ends with an empty line, and the text
\* without markup is one line shorter than the input
C12_Witness ==
    /\ exPc = "done"
    /\ pickup_the_last
    /\ extracted[2] # <<>>
    /\ HasCompleteBlock(text)
    /\ extracted[1] # StripMarkup(extracted[1])
    /\ Len(SplitLines(text)) >= 4
    /\ SplitLines(text)[Len(SplitLines(text))] = <<>>
    /\ Len(SplitLines(StripMarkup(extracted[1]))) = Len(SplitLines(text)) - 1

\* a fence line without its indentation; any other line as it is
Dedent(l) == IF IsFenceLine(l) THEN LStrip(l) ELSE l

\* the text with every fence line moved to the start of its line
DedentText(t) ==
    LET ls == SplitLines(t)
    IN  JoinNL([k \in 1..Len(ls) |-> Dedent(ls[k])])

\* C17: a fence line is recognised by its trimmed content, so an indented
\* fence line opens and closes a block as an unindented one does: the block
\* content returned for a text is the one returned for the same text with
\* its fence lines unindented.
C17_TrimmedFence ==
    exPc = "done" =>
        extracted[2] =
            highlight_and_extract_code(DedentText(text), pickup_the_last)[2]

\* a line of the annotated text that carries the highlight markup
IsAnnotated(l) ==
    /\ Len(l) >= 3
    /\ SubSeq(l, 1, 2) = <<"ESC[1m", "ESC[32m">>
    /\ l[Len(l)] = "ESC[0m"

\* the annotated lines of the returned text, in order, without their markup
AnnotatedContent(annotatedText) ==
    LET ann == SelectSeq(SplitLines(annotatedText), IsAnnotated)
    IN  [k \in 1..Len(ann) |-> StripMarkup(ann[k])]

\* C20: the lines that carry the highlight in the returned text are, in the
\* same order, the lines of the returned block content; every other line
\* carries no markup at all; and no fence line is annotated or part of the
\* block content.
C20_HighlightIsBlock ==
    exPc = "done" =>
        LET shown == AnnotatedContent(extracted[1])
            all == SplitLines(extracted[1])
        IN  /\ JoinNL(shown) = extracted[2]
            /\ \A k \in 1..Len(all) :
                   IsAnnotated(all[k]) \/ all[k] = StripMarkup(all[k])
            /\ \A k \in 1..Len(shown) : ~IsFenceLine(shown[k])

(***************************************************************************)
(* Text Clipper: claims C13, C14 and C15.                                  *)
(***************************************************************************)
\* s holds the snip marker
HasSnip(s) ==
    \E i \in 1..Len(s) :
        i + Len(snip_str) - 1 <= Len(s) /\ SubSeq(s, i, i + Len(snip_str) - 1) = snip_str

\* C13: for a non-empty text of at most max_chars characters clip_text
\* returns the whole text followed by a line break: no snip marker is put
\* in and no line is removed.
C13_FitsUnchanged ==
    (clipPc = "returned" /\ clipText # <<>> /\ Len(clipText) <= clipMax) =>
        /\ clipped = clipText \o <<"\n">>
        /\ ~HasSnip(clipped)

\* the marker: the snip string and the line break after it
MarkerLen == Len(snip_str) + 1

\* C14: the returned text has at most max_chars plus the marker length
\* characters, on the hard cut and on the cut at a line break, also when a
\* line break sits at index max_chars.
C14_LengthBound ==
    clipPc = "returned" => Len(clipped) <= clipMax + MarkerLen

\* C15: for every text and every max_chars >= 0 the call returns, and what
\* it returns is a text; the while loop moves newline_pos strictly forward
\* in every iteration that does not return, stays inside the text, and is
\* never left by its test becoming false.
C15_Total ==
    /\ [](clipPc # "fell_through")
    /\ [](clipPc = "loop" => clipPos \in 0..(Len(clipText) - 1))
    /\ [](clipPc = "returned" => clipped \in Seq({"a", "b", "\n"} \cup
                                                {snip_str[i] : i \in 1..Len(snip_str)}))
    /\ [][(clipPc = "loop" /\ clipPc' = "loop") => clipPos' > clipPos]_vars
    /\ <>(clipPc = "returned")

\* C15 witness: the call returned from inside the loop after the loop had
\* moved newline_pos past the first line break of the text
C15_Witness ==
    /\ clipPc = "returned"
    /\ clipPos > Find(clipText, "\n", 0)
    /\ Find(clipText, "\n", 0) >= 0
    /\ clipped = Prefix(clipText, clipPos + 1) \o snip_str \o <<"\n">>

(***************************************************************************)
(* Orchestrator: claims C3 to C8.                                          *)
(***************************************************************************)
\* the calls of do_run_and_capture made after the first model call: the
\* executions of the generated command
Executions == {i \in 1..Len(run_log) : run_log[i].chats >= 1}

\* the generated command was executed and do_run_and_capture returned
Executed == Executions # {}
LastRun == run_log[Len(run_log)]

\* C3: when main has run to its end, the exit status of the process is the
\* exit code of the executed command if the generated command was executed
\* (run mode with a command extracted), whether or not the analysis was
\* made, and 0 in every other case, whatever the reference command returned.
C3_ExitCodeContract ==
    pc = "done" =>
        IF args.run /\ code # <<>>
        THEN /\ Executed
             /\ LastRun.cmd = code
             /\ process_exit = LastRun.res.code
        ELSE /\ ~Executed
             /\ process_exit = 0

\* C3 witness: run mode, the command failed with 7 and was analysed, the
\* reference command had succeeded, and the process exits with 7
C3_Witness ==
    /\ pc = "done"
    /\ args.run
    /\ args.refer # <<>>
    /\ Len(run_log) = 2
    /\ run_log[1].res.code = 0
    /\ Len(chat_log) = 2
    /\ process_exit = 7

\* C4: the analysis call is made if and only if run mode is on, a command was
\* extracted and its execution ended with a nonzero exit code; it comes after
\* that execution; the model is called at most twice, first with the
\* generation prompt and then with the analysis prompt, and a call that
\* failed is never followed by another call.
C4_DiagnoseOnce ==
    /\ Len(chat_log) <= 2
    /\ Len(chat_log) = 2 =>
          /\ args.run
          /\ code # <<>>
          /\ Executed
          /\ LastRun.chats = 1
          /\ LastRun.res.code # 0
          /\ exit_code = LastRun.res.code
          /\ chat_log[2].prompt =
                format_analysis_prompt(code, task, context,
                                       clip_text(stdout, args.max_chars),
                                       clip_text(stderr, args.max_chars))
    /\ Len(chat_log) >= 1 =>
          chat_log[1].prompt =
             format_command_generation_prompt(task, context, args.script,
                                              args.prompting)
    /\ (pc \in {"exit", "done"} /\ Executed /\ LastRun.res.code # 0) =>
          Len(chat_log) = 2
    /\ \A i \in 1..Len(chat_log) : ~chat_log[i].ok => i = Len(chat_log)

\* C4 witness: the command failed and main is past the analysis call
C4_Witness ==
    /\ pc = "exit"
    /\ Len(chat_log) = 2
    /\ exit_code = 7
    /\ analysis # <<>>

\* C5: an extracted command is handed to the clipboard or executed, never
\* both and never twice: to the clipboard only when run mode is off, executed
\* only when run mode is on, and one of the two has happened when main has
\* run to its end.
C5_ConsumedOnce ==
    /\ Len(clipboard) + Cardinality(Executions) <= 1
    /\ clipboard # <<>> => (~args.run /\ code # <<>> /\ clipboard = <<code>>)
    /\ Executed => (args.run /\ code # <<>> /\ LastRun.cmd = code)
    /\ (pc = "done" /\ code # <<>>) =>
          Len(clipboard) + Cardinality(Executions) = 1

\* C5 witness: run mode off, main ended with the command on the clipboard
C5_Witness ==
    /\ pc = "done"
    /\ ~args.run
    /\ code # <<>>
    /\ clipboard = <<code>>

\* the response was handed to the Extractor and printed (line 273)
ExtractionDone == printed # <<>>

\* C6: when the Extractor returns no block content, main ends at once with
\* exit status 0, in run mode or not: nothing is executed, nothing is copied,
\* the model is not called again and only the response was printed.
C6_ExtractionMiss ==
    (ExtractionDone /\ code = <<>>) =>
        /\ pc \in {"branch", "done"}
        /\ ~Executed
        /\ clipboard = <<>>
        /\ Len(chat_log) = 1
        /\ printed = <<highlighted_text>>
        /\ pc = "done" => process_exit = 0

\* C6 witness: run mode, a response with a fence but no block content
C6_Witness ==
    /\ pc = "done"
    /\ args.run
    /\ code = <<>>
    /\ \E i \in 1..Len(command) : command[i] = BQ

\* C7: a reference command is run before the first model call, once and
\* without live echo; no other command is run before that call; the context
\* built from its result is the one in the generation prompt and in the
\* analysis prompt; its exit code starts no analysis and is not the exit
\* status of the process.
C7_ReferenceContext ==
    /\ \A i \in 1..Len(run_log) :
          run_log[i].chats = 0 =>
             (i = 1 /\ run_log[i].cmd = args.refer /\ ~run_log[i].thru)
    /\ (args.refer # <<>> /\ Len(chat_log) >= 1) =>
          /\ Len(run_log) >= 1
          /\ run_log[1].chats = 0
          /\ context = build_reference_context(args.refer, args.max_chars,
                                               run_log[1].res)
          /\ chat_log[1].prompt =
                format_command_generation_prompt(task, context, args.script,
                                                 args.prompting)
          /\ Len(chat_log) = 2 =>
                chat_log[2].prompt =
                   format_analysis_prompt(code, task, context,
                                          clip_text(stdout, args.max_chars),
                                          clip_text(stderr, args.max_chars))
    /\ (args.refer = <<>> /\ Len(chat_log) >= 1) =>
          (context = <<>> /\ \A i \in 1..Len(run_log) : run_log[i].chats >= 1)
    /\ (Len(chat_log) = 2 /\ args.refer # <<>>) =>
          (Len(run_log) = 2 /\ run_log[2].res.code # 0)
    /\ (pc = "done" /\ args.refer # <<>>) =>
          process_exit = (IF Len(run_log) = 2 THEN run_log[2].res.code ELSE 0)

\* C7 witness: the reference command failed with 7, the generated command
\* was executed and succeeded, and main ended with exit status 0 after one
\* model call
C7_Witness ==
    /\ pc = "done"
    /\ Len(run_log) = 2
    /\ run_log[1].res.code = 7
    /\ run_log[1].res.stdout # <<>>
    /\ run_log[2].res.code = 0
    /\ Len(chat_log) = 1
    /\ process_exit = 0

\* C8: a failed model call ends main: it is the last call; after a failed
\* generation call nothing is extracted, printed, executed or copied, and
\* after a failed analysis call main has stopped as well.
C8_ModelErrorsFatal ==
    /\ \A i \in 1..Len(chat_log) :
          ~chat_log[i].ok => (i = Len(chat_log) /\ pc = "aborted")
    /\ (Len(chat_log) >= 1 /\ ~chat_log[1].ok) =>
          /\ Len(chat_log) = 1
          /\ command = <<>>
          /\ code = <<>>
          /\ printed = <<>>
          /\ clipboard = <<>>
          /\ ~Executed

\* C8 witness: the analysis call failed
C8_Witness ==
    /\ Len(chat_log) = 2
    /\ ~chat_log[2].ok
    /\ pc = "aborted"

(***************************************************************************)
(* Orchestrator: claims C16 and C18.                                       *)
(***************************************************************************)
\* how many of the three modes are on: run, script, and a prompting strategy
\* that sets extract_last_command
ModesOn(a) ==
    Cardinality({m \in {"run", "script", "prompting"} :
                    \/ m = "run" /\ a.run
                    \/ m = "script" /\ a.script
                    \/ m = "prompting" /\ PickupTheLast(a.prompting)})

\* C16 as stated: from the first model call onward at most one of run,
\* script and a prompting strategy with the final-answer flag is on; with
\* two of them on, the command line is rejected and no model call is made.
C16_ModeExclusive ==
    /\ chat_log # <<>> => ModesOn(args) <= 1
    /\ ModesOn(args) >= 2 => (pc \in {"parse", "usage_error"} /\ chat_log = <<>>)

\* C16, amended: from the first model call onward at most one of run and
\* script is on; run with script is rejected as a usage error (exit status
\* 2) before any command is run and any model call is made, and it is the
\* only combination rejected: a prompting strategy with the final-answer
\* flag goes with run or with script, and with a task given such a command
\* line is not rejected.
C16_RunScriptExclusive ==
    /\ chat_log # <<>> => ~(args.run /\ args.script)
    /\ (args.run /\ args.script) =>
           /\ pc \in {"parse", "usage_error"}
           /\ chat_log = <<>>
           /\ run_log = <<>>
    /\ (pc = "usage_error" /\ process_exit = 2) <=>
           (pc # "parse" /\ args.run /\ args.script)
    /\ (pc = "usage_error" /\ ~(args.run /\ args.script)) => args.task = <<>>

\* C16 witness: run and script together, with a task and a prompting
\* strategy, were rejected with exit status 2 and nothing was called
C16_Witness ==
    /\ pc = "usage_error"
    /\ args.run /\ args.script
    /\ args.task # <<>>
    /\ PickupTheLast(args.prompting)
    /\ process_exit = 2
    /\ chat_log = <<>>
    /\ run_log = <<>>

\* the headers of the sections of an analysis prompt, in their fixed order
SectionHeaders ==
    <<"\n## TASK\n", "\n## CONTEXT\n", "\n## COMMAND\n", "\n## STDOUT\n",
      "\n## STDERR\n">>
HeaderSet == {SectionHeaders[i] : i \in 1..Len(SectionHeaders)}

\* the headers found in a prompt, in the order they come
HeadersOf(p) ==
    LET IsHeader(x) == x \in HeaderSet
    IN  SelectSeq(p, IsHeader)

\* the body of the section of p under header h: what follows the header, up
\* to the next header or the end of the prompt
SectionBody(p, h) ==
    LET at == CHOOSE i \in 1..Len(p) : p[i] = h
        later == {j \in (at + 1)..Len(p) : p[j] \in HeaderSet}
        stop == IF later = {} THEN Len(p) + 1
                ELSE CHOOSE j \in later : \A k \in later : j <= k
    IN  SubSeq(p, at + 1, stop - 1)

\* the headers for given section bodies: COMMAND always, the others when
\* their body is not empty
ExpectedHeaders(bodies) ==
    LET Wanted(i) == i = 3 \/ bodies[i] # <<>>
        idx == SelectSeq([i \in 1..Len(SectionHeaders) |-> i], Wanted)
    IN  [k \in 1..Len(idx) |-> SectionHeaders[idx[k]]]

\* the analysis prompt main has sent
AnalysisPrompt == chat_log[2].prompt

\* C18: the analysis prompt starts with the instruction, then holds its
\* sections in the order TASK, CONTEXT, COMMAND, STDOUT, STDERR; COMMAND is
\* always there and holds the executed command between fences; TASK, CONTEXT,
\* STDOUT and STDERR are there exactly when the task, the reference context,
\* the clipped standard output and the clipped standard error are not empty,
\* and each section holds that text followed by a line break.
C18_AnalysisPromptSections ==
    Len(chat_log) >= 2 =>
        LET p == AnalysisPrompt
            out == clip_text(LastRun.res.stdout, args.max_chars)
            err == clip_text(LastRun.res.stderr, args.max_chars)
            bodies == <<task, context, LastRun.cmd, out, err>>
        IN  /\ p[1] = "Analyze the result of the command.\n"
            /\ HeadersOf(p) = ExpectedHeaders(bodies)
            /\ SectionBody(p, "\n## COMMAND\n") =
                   Fence \o <<"\n">> \o LastRun.cmd \o <<"\n">> \o Fence \o <<"\n">>
            /\ LastRun.cmd = code
            /\ (out # <<>>) = (LastRun.res.stdout # <<>>)
            /\ (err # <<>>) = (LastRun.res.stderr # <<>>)
            /\ \A i \in {1, 2, 4, 5} :
                   bodies[i] # <<>> =>
                       SectionBody(p, SectionHeaders[i]) = bodies[i] \o <<"\n">>

\* C18 witness: the analysis prompt was sent with all five sections, the
\* standard output of the command clipped to two characters
C18_Witness ==
    /\ Len(chat_log) = 2
    /\ HeadersOf(AnalysisPrompt) = SectionHeaders
    /\ args.max_chars = 2
    /\ LastRun.res.stdout = <<"a", "\n", "a">>
    /\ SectionBody(AnalysisPrompt, "\n## STDOUT\n") # LastRun.res.stdout \o <<"\n">>

====
